---- MODULE Spec2Model ----
(***************************************************************************)
(* Model of the text-adventure client in src/src/main.rs: the state-token  *)
(* codec of ClientGameState (JSON text, LZ-string compression into the     *)
(* URI-safe alphabet and back), the untagged classification of the         *)
(* command response, and main's read-evaluate loop over                    *)
(* (current_screen, current_state).                                        *)
(*                                                                         *)
(* Text is a sequence of character codes: "a" is <<97>>.                   *)
(***************************************************************************)
EXTENDS Integers, Sequences, FiniteSets, TLC

\* ------------------------------------------------------------------ bounds

\* Longest inventory held by a state the server issues a token for.
MaxItems == 1

\* Longest inventory the codec is exercised on by itself (CodecSpec).
MaxCodecItems == 3

\* ------------------------------------------------------------ text helpers

RECURSIVE Pow2(_)
Pow2(n) == IF n = 0 THEN 1 ELSE 2 * Pow2(n - 1)

\* The characters serde_json writes and reads literally.
QuoteChar == <<34>>
BackslashChar == <<92>>

\* Mutant of json_escape: the characters are written as they are.
json_escape_none(s) == s

\* to_string of a String: quoted, with the quote and the backslash escaped.
RECURSIVE json_escape(_)
json_escape(s) ==
    IF s = <<>> THEN <<>>
    ELSE (IF <<Head(s)>> = QuoteChar \/ <<Head(s)>> = BackslashChar
          THEN BackslashChar \o <<Head(s)>>
          ELSE <<Head(s)>>) \o json_escape(Tail(s))

json_string(s) == QuoteChar \o json_escape(s) \o QuoteChar

RECURSIVE json_string_list(_)
\* The elements of a Vec<String>, comma separated.
json_string_list(items) ==
    IF items = <<>> THEN <<>>
    ELSE IF Len(items) = 1 THEN json_string(items[1])
    ELSE json_string(items[1]) \o <<44>> \o json_string_list(Tail(items))

\* "inventory", the one field of ClientGameState.
InventoryKey == <<105, 110, 118, 101, 110, 116, 111, 114, 121>>

\* serde_json::to_string(&self): {"inventory":[...]} without whitespace.
to_json(state) ==
    <<123>> \o json_string(InventoryKey) \o <<58, 91>>
        \o json_string_list(state.inventory) \o <<93, 125>>

\* ------------------------------------------------------ lz_str::compress_uri

\* value as numBits bits, least significant bit first.
bits_of(value, numBits) == [i \in 1..numBits |-> (value \div Pow2(i - 1)) % 2]

\* The code of dictionary entry w: entries are numbered from 3 in the order
\* they are created (0, 1 and 2 are the 8-bit, 16-bit and end markers).
dict_code(dict, w) == 2 + (CHOOSE i \in 1..Len(dict) : dict[i] = w)

dict_has(dict, w) == \E i \in 1..Len(dict) : dict[i] = w

\* One code has been written: the code width grows when enlargeIn runs out.
tick(ctx) ==
    IF ctx.enlargeIn = 1
    THEN [ctx EXCEPT !.enlargeIn = Pow2(ctx.numBits), !.numBits = @ + 1]
    ELSE [ctx EXCEPT !.enlargeIn = @ - 1]

\* Write the pending phrase w: a character seen for the first time goes out
\* as a marker and its code point, any other phrase as its dictionary code.
produce_w(ctx) ==
    IF ctx.w \in ctx.toCreate
    THEN LET ch == ctx.w[1]
             out == IF ch < 256
                    THEN bits_of(0, ctx.numBits) \o bits_of(ch, 8)
                    ELSE bits_of(1, ctx.numBits) \o bits_of(ch, 16)
             c1 == tick([ctx EXCEPT !.bits = @ \o out,
                                    !.toCreate = @ \ {ctx.w}])
         IN tick(c1)
    ELSE tick([ctx EXCEPT
                 !.bits = @ \o bits_of(dict_code(ctx.dict, ctx.w), ctx.numBits)])

RECURSIVE compress_loop(_, _, _)
compress_loop(input, i, ctx) ==
    IF i > Len(input) THEN ctx
    ELSE LET c == <<input[i]>>
             c1 == IF dict_has(ctx.dict, c) THEN ctx
                   ELSE [ctx EXCEPT !.dict = Append(@, c),
                                    !.toCreate = @ \cup {c}]
             wc == c1.w \o c
         IN IF dict_has(c1.dict, wc)
            THEN compress_loop(input, i + 1, [c1 EXCEPT !.w = wc])
            ELSE LET c2 == produce_w(c1)
                 IN compress_loop(input, i + 1,
                        [c2 EXCEPT !.dict = Append(@, wc), !.w = c])

\* The bit stream of the compressed text, the end marker included.
compress_bits(input) ==
    LET ctx0 == [dict |-> <<>>, toCreate |-> {}, w |-> <<>>,
                 enlargeIn |-> 2, numBits |-> 2, bits |-> <<>>]
        c1 == compress_loop(input, 1, ctx0)
        c2 == IF c1.w # <<>> THEN produce_w(c1) ELSE c1
    IN c2.bits \o bits_of(2, c2.numBits)

\* The flush of the last character: zero bits up to the next multiple of six,
\* at least one.
pad_bits(bits) == bits \o [i \in 1..(6 - (Len(bits) % 6)) |-> 0]

\* The URI-safe alphabet of lz_str, as code points:
\* A-Z a-z 0-9 + - $
UriKey ==
    [i \in 1..26 |-> 64 + i] \o [i \in 1..26 |-> 96 + i]
        \o [i \in 1..10 |-> 47 + i] \o <<43, 45, 36>>

\* Six bits, the first the most significant, as one character of UriKey.
pack_group(bits, g) ==
    UriKey[1 + 32 * bits[6 * g - 5] + 16 * bits[6 * g - 4] + 8 * bits[6 * g - 3]
             + 4 * bits[6 * g - 2] + 2 * bits[6 * g - 1] + bits[6 * g]]

compress_uri(input) ==
    LET bits == pad_bits(compress_bits(input))
    IN [g \in 1..(Len(bits) \div 6) |-> pack_group(bits, g)]

\* ClientGameState::to_state_string
to_state_string(state) == compress_uri(to_json(state))

\* ---------------------------------------------------- lz_str::decompress_uri

\* The failed decompression (None).
NoText == [ok |-> FALSE, text |-> <<>>]

\* The position of a character in UriKey, from 0; -1 for any other character.
uri_value(c) ==
    LET found == {i \in 1..Len(UriKey) : UriKey[i] = c}
    IN IF found = {} THEN -1 ELSE (CHOOSE i \in found : TRUE) - 1

\* The six bits of a value, most significant first.
six_bits(v) ==
    <<(v \div 32) % 2, (v \div 16) % 2, (v \div 8) % 2, (v \div 4) % 2,
      (v \div 2) % 2, v % 2>>

RECURSIVE token_bits(_)
\* The six bits of each character of the token, in order.
token_bits(token) ==
    IF token = <<>> THEN <<>>
    ELSE six_bits(uri_value(Head(token))) \o token_bits(Tail(token))

RECURSIVE bits_value(_, _, _)
\* The number held by n bits from position pos, least significant first.
bits_value(bits, pos, n) ==
    IF n = 0 THEN 0
    ELSE bits[pos] + 2 * bits_value(bits, pos + 1, n - 1)

\* Read n bits at pos; it fails when the stream holds fewer.
read_bits(bits, pos, n) ==
    IF pos + n - 1 > Len(bits)
    THEN [ok |-> FALSE, val |-> 0, pos |-> pos]
    ELSE [ok |-> TRUE, val |-> bits_value(bits, pos, n), pos |-> pos + n]

\* The decoder's counterpart of tick.
enlarge(ctx) ==
    IF ctx.enlargeIn = 0
    THEN [ctx EXCEPT !.enlargeIn = Pow2(ctx.numBits), !.numBits = @ + 1]
    ELSE ctx

RECURSIVE decompress_loop(_, _)
decompress_loop(bits, ctx) ==
    LET r == read_bits(bits, ctx.pos, ctx.numBits)
    IN IF ~r.ok THEN NoText
       ELSE IF r.val = 2 THEN [ok |-> TRUE, text |-> ctx.result]
       ELSE LET lit == r.val \in {0, 1}
                r2 == IF lit THEN read_bits(bits, r.pos, 8 * (r.val + 1))
                      ELSE [ok |-> TRUE, val |-> 0, pos |-> r.pos]
                \* a literal becomes a new entry, and the code read is its code
                c1 == enlarge(IF lit
                              THEN [ctx EXCEPT !.dict = Append(@, <<r2.val>>),
                                               !.enlargeIn = @ - 1]
                              ELSE ctx)
                cc == IF lit THEN Len(c1.dict) + 2 ELSE r.val
                dictSize == Len(c1.dict) + 3
            IN IF ~r2.ok \/ cc > dictSize THEN NoText
               ELSE LET entry == IF cc < dictSize THEN c1.dict[cc - 2]
                                 ELSE c1.w \o <<c1.w[1]>>
                    IN decompress_loop(bits,
                         enlarge([c1 EXCEPT
                                    !.pos = r2.pos,
                                    !.result = @ \o entry,
                                    !.dict = Append(@, c1.w \o <<entry[1]>>),
                                    !.enlargeIn = @ - 1,
                                    !.w = entry]))

decompress_bits(bits) ==
    LET r == read_bits(bits, 1, 2)
        r2 == IF r.ok /\ r.val \in {0, 1}
              THEN read_bits(bits, r.pos, 8 * (r.val + 1))
              ELSE [ok |-> FALSE, val |-> 0, pos |-> r.pos]
    IN IF ~r.ok THEN NoText
       ELSE IF r.val = 2 THEN [ok |-> TRUE, text |-> <<>>]
       ELSE IF ~r2.ok THEN NoText
       ELSE decompress_loop(bits,
                [pos |-> r2.pos, dict |-> << <<r2.val>> >>, w |-> <<r2.val>>,
                 result |-> <<r2.val>>, enlargeIn |-> 4, numBits |-> 3])

\* A character outside the alphabet makes the whole token undecodable.
decompress_uri(token) ==
    IF \E i \in 1..Len(token) : uri_value(token[i]) < 0 THEN NoText
    ELSE decompress_bits(token_bits(token))

\* --------------------------------------- serde_json::from_str::<ClientGameState>
\* A parse result is [ok, pos, val]: pos is the position after what was read.

ParseFail == [ok |-> FALSE, pos |-> 0, val |-> <<>>]

IsWhitespace(c) == c \in {32, 9, 10, 13}

RECURSIVE skip_ws(_, _)
skip_ws(t, p) ==
    IF p <= Len(t) /\ IsWhitespace(t[p]) THEN skip_ws(t, p + 1) ELSE p

\* Whether the text holds character c at position p.
at(t, p, c) == p <= Len(t) /\ t[p] = c

\* The character an escape sequence \x stands for, or -1 (the \u escapes are
\* outside the model's texts).
unescape(x) ==
    CASE x = 34 -> 34 [] x = 92 -> 92 [] x = 47 -> 47 [] x = 110 -> 10
      [] x = 116 -> 9 [] x = 114 -> 13 [] x = 98 -> 8 [] x = 102 -> 12
      [] OTHER -> -1

RECURSIVE parse_string_body(_, _, _)
\* The characters of a string up to its closing quote; p is after the opening one.
parse_string_body(t, p, acc) ==
    IF p > Len(t) \/ t[p] < 32 THEN ParseFail
    ELSE IF t[p] = 34 THEN [ok |-> TRUE, pos |-> p + 1, val |-> acc]
    ELSE IF t[p] = 92
         THEN IF p + 1 > Len(t) \/ unescape(t[p + 1]) < 0 THEN ParseFail
              ELSE parse_string_body(t, p + 2, Append(acc, unescape(t[p + 1])))
    ELSE parse_string_body(t, p + 1, Append(acc, t[p]))

parse_string(t, p) ==
    IF at(t, p, 34) THEN parse_string_body(t, p + 1, <<>>) ELSE ParseFail

RECURSIVE parse_string_items(_, _, _)
\* The elements of a Vec<String> after the first; p is after an element.
parse_string_items(t, p, acc) ==
    LET q == skip_ws(t, p)
    IN IF at(t, q, 93) THEN [ok |-> TRUE, pos |-> q + 1, val |-> acc]
       ELSE IF at(t, q, 44)
            THEN LET r == parse_string(t, skip_ws(t, q + 1))
                 IN IF r.ok THEN parse_string_items(t, r.pos, Append(acc, r.val))
                    ELSE ParseFail
       ELSE ParseFail

\* A Vec<String>: an array whose elements are all strings.
parse_string_list(t, p) ==
    IF ~at(t, p, 91) THEN ParseFail
    ELSE LET q == skip_ws(t, p + 1)
         IN IF at(t, q, 93) THEN [ok |-> TRUE, pos |-> q + 1, val |-> <<>>]
            ELSE LET r == parse_string(t, q)
                 IN IF r.ok THEN parse_string_items(t, r.pos, <<r.val>>)
                    ELSE ParseFail

RECURSIVE skip_digits(_, _)
skip_digits(t, p) ==
    IF p <= Len(t) /\ t[p] \in 48..57 THEN skip_digits(t, p + 1) ELSE p

\* An integer: an optional minus, then 0 or a digit string not starting with 0.
skip_number(t, p) ==
    LET q == IF at(t, p, 45) THEN p + 1 ELSE p
    IN IF at(t, q, 48) THEN [ok |-> TRUE, pos |-> q + 1, val |-> <<>>]
       ELSE IF q <= Len(t) /\ t[q] \in 49..57
            THEN [ok |-> TRUE, pos |-> skip_digits(t, q), val |-> <<>>]
       ELSE ParseFail

\* Whether word stands in the text at p.
skip_word(t, p, word) ==
    IF p + Len(word) - 1 <= Len(t) /\ SubSeq(t, p, p + Len(word) - 1) = word
    THEN [ok |-> TRUE, pos |-> p + Len(word), val |-> <<>>]
    ELSE ParseFail

RECURSIVE skip_value(_, _), skip_elements(_, _), skip_members(_, _)
\* Any JSON value, read and dropped: what serde does with an unknown field.
skip_value(t, p) ==
    IF p > Len(t) THEN ParseFail
    ELSE IF t[p] = 34
         THEN LET r == parse_string(t, p) IN [r EXCEPT !.val = <<>>]
    ELSE IF t[p] = 91
         THEN LET q == skip_ws(t, p + 1)
              IN IF at(t, q, 93) THEN [ok |-> TRUE, pos |-> q + 1, val |-> <<>>]
                 ELSE skip_elements(t, q)
    ELSE IF t[p] = 123
         THEN LET q == skip_ws(t, p + 1)
              IN IF at(t, q, 125) THEN [ok |-> TRUE, pos |-> q + 1, val |-> <<>>]
                 ELSE skip_members(t, q)
    ELSE IF t[p] = 116 THEN skip_word(t, p, <<116, 114, 117, 101>>)
    ELSE IF t[p] = 102 THEN skip_word(t, p, <<102, 97, 108, 115, 101>>)
    ELSE IF t[p] = 110 THEN skip_word(t, p, <<110, 117, 108, 108>>)
    ELSE skip_number(t, p)

\* The elements of an array from p, up to and with its closing bracket.
skip_elements(t, p) ==
    LET r == skip_value(t, p)
        q == skip_ws(t, r.pos)
    IN IF ~r.ok THEN ParseFail
       ELSE IF at(t, q, 93) THEN [ok |-> TRUE, pos |-> q + 1, val |-> <<>>]
       ELSE IF at(t, q, 44) THEN skip_elements(t, skip_ws(t, q + 1))
       ELSE ParseFail

\* The members of an object from p, up to and with its closing brace.
skip_members(t, p) ==
    LET k == parse_string(t, p)
        c == skip_ws(t, k.pos)
        r == skip_value(t, skip_ws(t, c + 1))
        q == skip_ws(t, r.pos)
    IN IF ~k.ok \/ ~at(t, c, 58) \/ ~r.ok THEN ParseFail
       ELSE IF at(t, q, 125) THEN [ok |-> TRUE, pos |-> q + 1, val |-> <<>>]
       ELSE IF at(t, q, 44) THEN skip_members(t, skip_ws(t, q + 1))
       ELSE ParseFail

RECURSIVE parse_state_members(_, _, _, _)
\* The members of the object form of ClientGameState from p: inventory is read
\* once (twice is a duplicate field), every other field is read and dropped.
parse_state_members(t, p, seen, inv) ==
    LET k == parse_string(t, p)
        c == skip_ws(t, k.pos)
        v == skip_ws(t, c + 1)
        isInv == k.val = InventoryKey
        r == IF isInv THEN parse_string_list(t, v) ELSE skip_value(t, v)
        q == skip_ws(t, r.pos)
        seen2 == seen \/ isInv
        inv2 == IF isInv THEN r.val ELSE inv
    IN IF ~k.ok \/ ~at(t, c, 58) THEN ParseFail
       ELSE IF (isInv /\ seen) \/ ~r.ok THEN ParseFail
       ELSE IF at(t, q, 125)
            THEN IF seen2 THEN [ok |-> TRUE, pos |-> q + 1, val |-> inv2]
                 ELSE ParseFail
       ELSE IF at(t, q, 44)
            THEN parse_state_members(t, skip_ws(t, q + 1), seen2, inv2)
       ELSE ParseFail

\* ClientGameState as serde's derive reads a struct: an object with the field
\* inventory, or an array holding the one field.
parse_state_value(t, p) ==
    IF at(t, p, 123)
    THEN LET q == skip_ws(t, p + 1)
         IN IF at(t, q, 125) THEN ParseFail  \* missing field inventory
            ELSE parse_state_members(t, q, FALSE, <<>>)
    ELSE IF at(t, p, 91)
    THEN LET r == parse_string_list(t, skip_ws(t, p + 1))
             q == skip_ws(t, r.pos)
         IN IF r.ok /\ at(t, q, 93)
            THEN [ok |-> TRUE, pos |-> q + 1, val |-> r.val]
            ELSE ParseFail
    ELSE ParseFail

\* serde_json::from_str: one value, then only whitespace.
from_json(t) ==
    LET r == parse_state_value(t, skip_ws(t, 1))
    IN IF r.ok /\ skip_ws(t, r.pos) = Len(t) + 1
       THEN [ok |-> TRUE, state |-> [inventory |-> r.val]]
       ELSE [ok |-> FALSE, state |-> [inventory |-> <<>>]]

\* Mutant of from_state_string: a token that does not decode gives the empty
\* state instead of a panic.
from_state_string_or_default(state_string) ==
    LET json == decompress_uri(state_string)
        parsed == IF json.ok THEN from_json(json.text)
                  ELSE [ok |-> FALSE, state |-> [inventory |-> <<>>]]
    IN [ok |-> TRUE,
        state |-> IF parsed.ok THEN parsed.state ELSE [inventory |-> <<>>]]

\* ClientGameState::from_state_string. ok is FALSE where the code panics:
\* decompress_uri gave None (the first expect) or the text is not a
\* ClientGameState (the second expect).
from_state_string(state_string) ==
    LET json == decompress_uri(state_string)
    IN IF json.ok THEN from_json(json.text)
       ELSE [ok |-> FALSE, state |-> [inventory |-> <<>>]]

\* ------------------------------------------------------------- str::trim

\* char::is_whitespace
IsRustWhitespace(c) ==
    c \in (9..13) \cup {32, 133, 160, 5760, 8232, 8233, 8239, 8287, 12288}
        \cup (8192..8202)

RECURSIVE trim_start(_)
trim_start(s) ==
    IF s # <<>> /\ IsRustWhitespace(Head(s)) THEN trim_start(Tail(s)) ELSE s

RECURSIVE trim_end(_)
trim_end(s) ==
    IF s # <<>> /\ IsRustWhitespace(s[Len(s)])
    THEN trim_end(SubSeq(s, 1, Len(s) - 1))
    ELSE s

\* Mutant of trim: only the end of the line is trimmed.
trim_end_only(s) == trim_end(s)

trim(s) == trim_end(trim_start(s))

\* ------------------------------------------------- the arms of main's match

SlashInventory == <<47, 105, 110, 118, 101, 110, 116, 111, 114, 121>>
SlashScreenId == <<47, 115, 99, 114, 101, 101, 110, 45, 105, 100>>
SlashScreen == <<47, 115, 99, 114, 101, 101, 110>>
SlashLook == <<47, 108, 111, 111, 107>>
SlashWhereami == <<47, 119, 104, 101, 114, 101, 97, 109, 105>>
SlashWhere == <<47, 119, 104, 101, 114, 101>>
SlashRepeat == <<47, 114, 101, 112, 101, 97, 116>>
SlashAgain == <<47, 97, 103, 97, 105, 110>>
SlashHelp == <<47, 104, 101, 108, 112>>
SlashQuestion == <<47, 63>>
SlashExit == <<47, 101, 120, 105, 116>>
SlashQuit == <<47, 113, 117, 105, 116>>

InventoryArm == {SlashInventory}
ScreenIdArm == {SlashScreenId, SlashScreen}
LookArm == {SlashLook, SlashWhereami, SlashWhere, SlashRepeat, SlashAgain}
HelpArm == {SlashHelp, SlashQuestion}
ExitArm == {SlashExit, SlashQuit}
SlashCommands == InventoryArm \cup ScreenIdArm \cup LookArm \cup HelpArm \cup ExitArm

\* ------------------------------------------------------------ environment

INITIAL_SCREEN_ID == "0290922a-59ce-458b-8dbc-1c33f646580a"

\* The screens the server knows.
HomeScreen == [id |-> INITIAL_SCREEN_ID, body |-> <<"You are at home.">>]
CaveScreen == [id |-> "X", body |-> <<"You are in a cave.", "It is dark.">>]
Screens == {HomeScreen, CaveScreen}

\* The item names the server uses: lamp, key.
Lamp == <<108, 97, 109, 112>>
Key == <<107, 101, 121>>
ItemNames == {Lamp, Key}

RECURSIVE SeqsUpTo(_, _)
\* The sequences over S of length at most n.
SeqsUpTo(S, n) ==
    IF n = 0 THEN {<<>>}
    ELSE LET P == SeqsUpTo(S, n - 1)
         IN P \cup {Append(q, e) : q \in P, e \in S}

\* The states the server issues tokens for.
ServerStates == {[inventory |-> i] : i \in SeqsUpTo(ItemNames, MaxItems)}

\* Each of those states with its token.
IssuedTokens == {<<st, to_state_string(st)>> : st \in ServerStates}

ValidTokens == {issued[2] : issued \in IssuedTokens}

LampToken == to_state_string([inventory |-> <<Lamp>>])

\* The token of {"inventory":["lamp"],"gold":5}: a state with a further field.
ExtraFieldToken ==
    compress_uri(<<123, 34, 105, 110, 118, 101, 110, 116, 111, 114, 121, 34,
                   58, 91, 34, 108, 97, 109, 112, 34, 93, 44, 34, 103, 111,
                   108, 100, 34, 58, 53, 125>>)

\* Tokens that do not decode: a character outside the alphabet ("!"), a token
\* cut short, the token of {"items":[]}, and the empty token.
InvalidCharToken == [LampToken EXCEPT ![2] = 33]
TruncatedToken == SubSeq(LampToken, 1, Len(LampToken) - 4)
WrongShapeToken ==
    compress_uri(<<123, 34, 105, 116, 101, 109, 115, 34, 58, 91, 93, 125>>)
BadTokens == {InvalidCharToken, TruncatedToken, WrongShapeToken, <<>>}

Tokens == ValidTokens \cup {ExtraFieldToken} \cup BadTokens

\* A field of a JSON object: absent, present with a value of another JSON type
\* than the DTO's field has, or present with a value of that type.
Absent == [tag |-> "absent"]
Mistyped == [tag |-> "mistyped"]
Present(x) == [tag |-> "ok", v |-> x]

EmptyBody ==
    [success |-> Absent, type |-> Absent, printMessage |-> Absent,
     screen |-> Absent, state |-> Absent, itemsAdded |-> Absent,
     itemsRemoved |-> Absent, message |-> Absent]

\* The itemsAdded and itemsRemoved lists of a response.
ItemDiffs == {<< <<>>, <<>> >>, << <<Lamp>>, <<>> >>, << <<>>, <<Key>> >>,
              << <<Lamp>>, <<Key>> >>}

CommonFields(success, token, diff) ==
    [EmptyBody EXCEPT !.success = Present(success), !.type = Present("type"),
                      !.state = Present(token),
                      !.itemsAdded = Present(diff[1]),
                      !.itemsRemoved = Present(diff[2])]

\* The success flag with the item lists: every pair of lists with success
\* true, and success false with both lists empty.
FlagsAndDiffs ==
    {<<TRUE, d>> : d \in ItemDiffs} \cup {<<FALSE, << <<>>, <<>> >> >>}

MessageBodies ==
    {[CommonFields(fd[1], t, fd[2]) EXCEPT
        !.printMessage = Present(<<"Taken.", "Done.">>)] :
        fd \in FlagsAndDiffs, t \in Tokens}

NavigationBodies ==
    {[CommonFields(fd[1], t, fd[2]) EXCEPT !.screen = Present(sc)] :
        fd \in {x \in FlagsAndDiffs : x[2][1] = <<>> \/ x[2][2] # <<>>},
        t \in Tokens, sc \in Screens}

\* Responses with printMessage and screen at once.
BothBodies ==
    {[CommonFields(TRUE, t, << <<Lamp>>, <<>> >>) EXCEPT
        !.printMessage = Present(<<"Taken.", "Done.">>),
        !.screen = Present(CaveScreen)] : t \in Tokens}

FailureBodies ==
    {[EmptyBody EXCEPT !.success = Present(b),
                       !.message = Present("You can't fly.")] : b \in BOOLEAN}

\* Objects that lack a field, or hold one of another type.
BrokenBodies ==
    { EmptyBody,
      [EmptyBody EXCEPT !.success = Present(FALSE)],
      [EmptyBody EXCEPT !.message = Present("You can't fly.")],
      [CommonFields(TRUE, LampToken, << <<>>, <<>> >>) EXCEPT
          !.printMessage = Mistyped],
      [CommonFields(TRUE, LampToken, << <<>>, <<>> >>) EXCEPT
          !.screen = Mistyped],
      [CommonFields(TRUE, LampToken, << <<>>, <<>> >>) EXCEPT
          !.screen = Mistyped, !.message = Present("You can't fly.")],
      [CommonFields(TRUE, LampToken, << <<>>, <<>> >>) EXCEPT
          !.printMessage = Present(<<"Taken.", "Done.">>),
          !.state = Absent, !.message = Present("You can't fly.")] }

ResponseBodies ==
    MessageBodies \cup NavigationBodies \cup BothBodies \cup FailureBodies
        \cup BrokenBodies

\* What comes back from the POST: send() fails, the body is no JSON, or the
\* body is a JSON object.
NoReply == [kind |-> "none"]
SendFailed == [kind |-> "send_failed"]
NotJson == [kind |-> "not_json"]
Replies == {SendFailed, NotJson} \cup {[kind |-> "object", body |-> b] : b \in ResponseBodies}

\* The lines typed at the prompt, with their line ends.
Newline == <<10>>
GoNorth == <<103, 111, 32, 110, 111, 114, 116, 104>>
Lines ==
    {c \o Newline : c \in SlashCommands}
        \cup { <<32, 32>> \o GoNorth \o <<32, 13, 10>>,
               Newline,
               <<32>> \o SlashLook \o <<9>> \o Newline }

\* ------------------------------------------------------------------ state

VARIABLES
    pc,              \* where main is: "start", "prompt", "waiting" (inside
                     \* submit_command, the request sent), "exited", "panicked"
    current_screen,  \* game.current_screen
    current_state,   \* game.current_state
    request,         \* the SubmitCommandDto of this turn of the loop
    reply,           \* what came back for it
    output,          \* the lines printed in this turn of the loop
    last,            \* the arm of main that ran last
    applied,         \* history: the id of the screen fetched at the start or
                     \* of the last navigation applied, and the token of
                     \* the last outcome applied
    codec,           \* the codec exercised on its own (CodecSpec)
    user_input,      \* main's user_input: the line read_line read last
    fetched          \* history: the screen id get_screen_by_id has sent a
                     \* GET for, "" before it has

vars ==
    <<pc, current_screen, current_state, request, reply, output, last, applied,
      codec, user_input, fetched>>

NoRequest == [sent |-> FALSE]

NoDecoded == [ok |-> FALSE, state |-> [inventory |-> <<>>]]
CodecIdle == [stage |-> "idle", s |-> [inventory |-> <<>>], token |-> <<>>,
              decoded |-> NoDecoded]

\* println!("{}", s) and println!("<prefix>{}", item)
TextLine(s) == [s |-> s, item |-> <<>>]
ItemLine(prefix, name) == [s |-> prefix, item |-> name]

\* for line in body { println!("{}", line) }
print_lines(body) ==
    IF body = <<>> THEN <<>> ELSE [i \in 1..Len(body) |-> TextLine(body[i])]

\* The "Items added:" and "Items removed:" blocks, printed for a list that is
\* not empty.
print_items(header, prefix, items) ==
    IF Len(items) > 0
    THEN <<TextLine(header)>> \o [i \in 1..Len(items) |-> ItemLine(prefix, items[i])]
    ELSE <<>>

\* Mutant of print_diffs: the removed items are printed before the added ones.
print_diffs_removed_first(items_added, items_removed) ==
    print_items("Items removed:", "- ", items_removed)
        \o print_items("Items added:", "+ ", items_added)

print_diffs(items_added, items_removed) ==
    print_items("Items added:", "+ ", items_added)
        \o print_items("Items removed:", "- ", items_removed)

\* Game::new
Init ==
    /\ pc = "start"
    /\ current_screen = [id |-> "", body |-> <<>>]
    /\ current_state = [inventory |-> <<>>]
    /\ request = NoRequest
    /\ reply = NoReply
    /\ output = <<>>
    /\ last = "new"
    /\ applied = [screen_id |-> "", has_token |-> FALSE, token |-> <<>>]
    /\ codec = CodecIdle
    /\ user_input = <<>>
    /\ fetched = ""

\* -------------------------------------------- #[serde(untagged)] dispatch

PrintMessageFields ==
    {"success", "type", "printMessage", "state", "itemsAdded", "itemsRemoved"}
NavigationFields ==
    {"success", "type", "screen", "state", "itemsAdded", "itemsRemoved"}
\* Mutant of FailureFields: message is optional in the failure DTO.
FailureFields_SuccessOnly == {"success"}

FailureFields == {"success", "message"}

\* A DTO deserializes from an object that holds each of its fields with a
\* value of the field's type; further fields of the object are ignored.
\* Mutant of deserializes: the two success DTOs take success: true only.
deserializes_success_true(body, fields) ==
    /\ \A f \in fields : body[f].tag = "ok"
    /\ "type" \in fields => body.success.v

deserializes(body, fields) == \A f \in fields : body[f].tag = "ok"

\* Mutant of VariantOrder: the navigation variant is declared first.
VariantOrder_NavigationFirst ==
    << [name |-> "SubmitCommandNavigationSuccess", fields |-> NavigationFields],
       [name |-> "SubmitCommandPrintMessageSuccess", fields |-> PrintMessageFields],
       [name |-> "SubmitCommandFailure", fields |-> FailureFields] >>

\* The variants in the order the enum declares them.
VariantOrder ==
    << [name |-> "SubmitCommandPrintMessageSuccess", fields |-> PrintMessageFields],
       [name |-> "SubmitCommandNavigationSuccess", fields |-> NavigationFields],
       [name |-> "SubmitCommandFailure", fields |-> FailureFields] >>

\* response.json::<SubmitCommandResponse>(): the first variant that
\* deserializes, or "Err" when none does.
deserialize_response(body) ==
    IF \E i \in 1..Len(VariantOrder) : deserializes(body, VariantOrder[i].fields)
    THEN VariantOrder[CHOOSE i \in 1..Len(VariantOrder) :
                        /\ deserializes(body, VariantOrder[i].fields)
                        /\ \A j \in 1..(i - 1) :
                              ~deserializes(body, VariantOrder[j].fields)].name
    ELSE "Err"

\* What submit_command returns for a reply, or "panic" where it unwraps an Err.
submit_result(r) ==
    IF r.kind = "object" THEN deserialize_response(r.body) ELSE "Err"

\* ---------------------------------------------------------------- actions

\* Mutant of Start: a fetch that fails leaves the empty screen of Game::new
\* and main goes on to the prompt.
Start_FetchFailureIgnored ==
    /\ pc = "start"
    /\ fetched' = INITIAL_SCREEN_ID
    /\ \E r \in {SendFailed, NotJson} \cup {[kind |-> "screen", screen |-> sc] : sc \in Screens} :
          /\ reply' = r
          /\ IF r.kind = "screen"
             THEN /\ current_screen' = r.screen
                  /\ output' = print_lines(r.screen.body)
                  /\ applied' = [applied EXCEPT !.screen_id = r.screen.id]
             ELSE UNCHANGED <<current_screen, output, applied>>
    /\ pc' = "prompt"
    /\ last' = "start"
    /\ UNCHANGED <<current_state, request, codec, user_input>>

\* main, lines 152-158: fetch the initial screen and print it.  send() failing
\* panics in get_screen_by_id; a body that is no GameScreenDto makes it return
\* None, which main unwraps.
Start ==
    /\ pc = "start"
    /\ fetched' = INITIAL_SCREEN_ID
    /\ \E r \in {SendFailed, NotJson} \cup {[kind |-> "screen", screen |-> sc] : sc \in Screens} :
          /\ reply' = r
          /\ IF r.kind = "screen"
             THEN /\ current_screen' = r.screen
                  /\ output' = print_lines(r.screen.body)
                  /\ applied' = [applied EXCEPT !.screen_id = r.screen.id]
                  /\ pc' = "prompt"
             ELSE /\ pc' = "panicked"
                  /\ UNCHANGED <<current_screen, output, applied>>
    /\ last' = "start"
    /\ UNCHANGED <<current_state, request, codec, user_input>>

\* "/inventory"
Inventory(line) ==
    /\ pc = "prompt"
    /\ trim(line) \in InventoryArm
    /\ output' = <<TextLine("Current inventory:")>>
                    \o [i \in 1..Len(current_state.inventory) |->
                          ItemLine("  ", current_state.inventory[i])]
    /\ last' = "/inventory"
    /\ user_input' = line
    /\ request' = NoRequest
    /\ reply' = NoReply
    /\ UNCHANGED <<pc, current_screen, current_state, applied, codec, fetched>>

\* "/screen-id" | "/screen"
ScreenId(line) ==
    /\ pc = "prompt"
    /\ trim(line) \in ScreenIdArm
    /\ output' = <<TextLine(current_screen.id)>>
    /\ last' = "/screen-id"
    /\ user_input' = line
    /\ request' = NoRequest
    /\ reply' = NoReply
    /\ UNCHANGED <<pc, current_screen, current_state, applied, codec, fetched>>

\* Mutant of Look: the arm shows the initial screen again and makes it the
\* current one.
Look_BackToInitial(line) ==
    /\ pc = "prompt"
    /\ trim(line) \in LookArm
    /\ current_screen' = HomeScreen
    /\ output' = print_lines(HomeScreen.body)
    /\ last' = "/look"
    /\ user_input' = line
    /\ request' = NoRequest
    /\ reply' = NoReply
    /\ UNCHANGED <<pc, current_state, applied, codec, fetched>>

\* "/look" | "/whereami" | "/where" | "/repeat" | "/again"
Look(line) ==
    /\ pc = "prompt"
    /\ trim(line) \in LookArm
    /\ output' = print_lines(current_screen.body)
    /\ last' = "/look"
    /\ user_input' = line
    /\ request' = NoRequest
    /\ reply' = NoReply
    /\ UNCHANGED <<pc, current_screen, current_state, applied, codec, fetched>>

\* "/help" | "/?"
Help(line) ==
    /\ pc = "prompt"
    /\ trim(line) \in HelpArm
    /\ output' = <<TextLine("List of commands: ...")>>
    /\ last' = "/help"
    /\ user_input' = line
    /\ request' = NoRequest
    /\ reply' = NoReply
    /\ UNCHANGED <<pc, current_screen, current_state, applied, codec, fetched>>

\* "/exit" | "/quit"
Exit(line) ==
    /\ pc = "prompt"
    /\ trim(line) \in ExitArm
    /\ pc' = "exited"
    /\ output' = <<>>
    /\ last' = "/exit"
    /\ user_input' = line
    /\ request' = NoRequest
    /\ reply' = NoReply
    /\ UNCHANGED <<current_screen, current_state, applied, codec, fetched>>

\* Mutant of state_to_send: the state sent is that of Game::new.
state_to_send_new_state == to_state_string([inventory |-> <<>>])

\* self.current_state.to_state_string(), line 137.
state_to_send == to_state_string(current_state)

\* The request submit_command builds, lines 134-138.
command_request(command, state_string) ==
    [sent |-> TRUE,
     contextScreenId |-> current_screen.id,
     command |-> command,
     state |-> state_string]

\* Any other line: submit_command builds the request and posts it.
SubmitCommand ==
    /\ pc = "prompt"
    /\ LET state_string == state_to_send
       IN \E line \in Lines :
             /\ trim(line) \notin SlashCommands
             /\ user_input' = line
             /\ request' = command_request(trim(line), state_string)
    /\ reply' = NoReply
    /\ output' = <<>>
    /\ pc' = "waiting"
    /\ last' = "submit_command"
    /\ UNCHANGED <<current_screen, current_state, applied, codec, fetched>>

\* Mutant of SendUnwrapPanics: the error is dropped and the loop goes on.
SendUnwrapPanics_Recover ==
    /\ pc = "waiting"
    /\ reply' = SendFailed
    /\ pc' = "prompt"
    /\ last' = "send_unwrap"
    /\ UNCHANGED <<current_screen, current_state, request, output, applied, codec, user_input, fetched>>

\* send() returns Err: the unwrap of line 145 panics.
SendUnwrapPanics ==
    /\ pc = "waiting"
    /\ reply' = SendFailed
    /\ pc' = "panicked"
    /\ last' = "send_unwrap"
    /\ UNCHANGED <<current_screen, current_state, request, output, applied, codec, user_input, fetched>>

\* Mutant of JsonUnwrapPanics: the error is dropped and the loop goes on.
JsonUnwrapPanics_Recover(r) ==
    /\ pc = "waiting"
    /\ r.kind # "send_failed"
    /\ submit_result(r) = "Err"
    /\ reply' = r
    /\ pc' = "prompt"
    /\ last' = "json_unwrap"
    /\ UNCHANGED <<current_screen, current_state, request, output, applied, codec, user_input, fetched>>

\* json() returns Err, for a body that is no JSON or matches no variant: the
\* unwrap of line 147 panics.
JsonUnwrapPanics(r) ==
    /\ pc = "waiting"
    /\ r.kind # "send_failed"
    /\ submit_result(r) = "Err"
    /\ reply' = r
    /\ pc' = "panicked"
    /\ last' = "json_unwrap"
    /\ UNCHANGED <<current_screen, current_state, request, output, applied, codec, user_input, fetched>>

\* Mutant of PrintMessageSuccess: the client adds the items of itemsAdded to
\* the state the token decodes to.
PrintMessageSuccess_ApplyDiffs(r) ==
    /\ pc = "waiting"
    /\ submit_result(r) = "SubmitCommandPrintMessageSuccess"
    /\ reply' = r
    /\ last' = "SubmitCommandPrintMessageSuccess"
    /\ output' = print_lines(r.body.printMessage.v)
                    \o print_diffs(r.body.itemsAdded.v, r.body.itemsRemoved.v)
    /\ LET decoded == from_state_string(r.body.state.v)
       IN IF decoded.ok
          THEN /\ current_state' =
                     [inventory |-> decoded.state.inventory \o r.body.itemsAdded.v]
               /\ applied' = [applied EXCEPT !.has_token = TRUE,
                                              !.token = r.body.state.v]
               /\ pc' = "prompt"
          ELSE /\ pc' = "panicked"
               /\ UNCHANGED <<current_state, applied>>
    /\ UNCHANGED <<current_screen, request, codec, user_input, fetched>>

\* The arm of SubmitCommandPrintMessageSuccess, lines 201-223: print, then
\* replace the state; from_state_string panics on a token it cannot decode.
PrintMessageSuccess(r) ==
    /\ pc = "waiting"
    /\ submit_result(r) = "SubmitCommandPrintMessageSuccess"
    /\ reply' = r
    /\ last' = "SubmitCommandPrintMessageSuccess"
    /\ output' = print_lines(r.body.printMessage.v)
                    \o print_diffs(r.body.itemsAdded.v, r.body.itemsRemoved.v)
    /\ LET decoded == from_state_string(r.body.state.v)
       IN IF decoded.ok
          THEN /\ current_state' = decoded.state
               /\ applied' = [applied EXCEPT !.has_token = TRUE,
                                              !.token = r.body.state.v]
               /\ pc' = "prompt"
          ELSE /\ pc' = "panicked"
               /\ UNCHANGED <<current_state, applied>>
    /\ UNCHANGED <<current_screen, request, codec, user_input, fetched>>

\* Mutant of NavigationSuccess: the screen is replaced before the state token
\* is decoded.
NavigationSuccess_ScreenFirst(r) ==
    /\ pc = "waiting"
    /\ submit_result(r) = "SubmitCommandNavigationSuccess"
    /\ reply' = r
    /\ last' = "SubmitCommandNavigationSuccess"
    /\ output' = print_lines(r.body.screen.v.body)
                    \o print_diffs(r.body.itemsAdded.v, r.body.itemsRemoved.v)
    /\ current_screen' = r.body.screen.v
    /\ LET decoded == from_state_string(r.body.state.v)
       IN IF decoded.ok
          THEN /\ current_state' = decoded.state
               /\ applied' = [screen_id |-> r.body.screen.v.id,
                              has_token |-> TRUE, token |-> r.body.state.v]
               /\ pc' = "prompt"
          ELSE /\ pc' = "panicked"
               /\ UNCHANGED <<current_state, applied>>
    /\ UNCHANGED <<request, codec, user_input, fetched>>

\* Mutant of NavigationSuccess: the screen is not replaced.
NavigationSuccess_KeepScreen(r) ==
    /\ pc = "waiting"
    /\ submit_result(r) = "SubmitCommandNavigationSuccess"
    /\ reply' = r
    /\ last' = "SubmitCommandNavigationSuccess"
    /\ output' = print_lines(r.body.screen.v.body)
                    \o print_diffs(r.body.itemsAdded.v, r.body.itemsRemoved.v)
    /\ LET decoded == from_state_string(r.body.state.v)
       IN IF decoded.ok
          THEN /\ current_state' = decoded.state
               /\ applied' = [screen_id |-> r.body.screen.v.id,
                              has_token |-> TRUE, token |-> r.body.state.v]
               /\ pc' = "prompt"
          ELSE /\ pc' = "panicked"
               /\ UNCHANGED <<current_state, applied>>
    /\ UNCHANGED <<current_screen, request, codec, user_input, fetched>>

\* The arm of SubmitCommandNavigationSuccess, lines 224-248: print, replace
\* the state, then the screen.
NavigationSuccess(r) ==
    /\ pc = "waiting"
    /\ submit_result(r) = "SubmitCommandNavigationSuccess"
    /\ reply' = r
    /\ last' = "SubmitCommandNavigationSuccess"
    /\ output' = print_lines(r.body.screen.v.body)
                    \o print_diffs(r.body.itemsAdded.v, r.body.itemsRemoved.v)
    /\ LET decoded == from_state_string(r.body.state.v)
       IN IF decoded.ok
          THEN /\ current_state' = decoded.state
               /\ current_screen' = r.body.screen.v
               /\ applied' = [screen_id |-> r.body.screen.v.id,
                              has_token |-> TRUE, token |-> r.body.state.v]
               /\ pc' = "prompt"
          ELSE /\ pc' = "panicked"
               /\ UNCHANGED <<current_state, current_screen, applied>>
    /\ UNCHANGED <<request, codec, user_input, fetched>>

\* Mutant of Failure: the arm resets the state.
Failure_ResetState(r) ==
    /\ pc = "waiting"
    /\ submit_result(r) = "SubmitCommandFailure"
    /\ reply' = r
    /\ last' = "SubmitCommandFailure"
    /\ output' = <<TextLine(r.body.message.v)>>
    /\ current_state' = [inventory |-> <<>>]
    /\ pc' = "prompt"
    /\ UNCHANGED <<current_screen, request, applied, codec, user_input, fetched>>

\* Mutant of Failure: the arm prints the current screen after the message.
Failure_PrintsScreen(r) ==
    /\ pc = "waiting"
    /\ submit_result(r) = "SubmitCommandFailure"
    /\ reply' = r
    /\ last' = "SubmitCommandFailure"
    /\ output' = <<TextLine(r.body.message.v)>> \o print_lines(current_screen.body)
    /\ pc' = "prompt"
    /\ UNCHANGED <<current_screen, current_state, request, applied, codec, user_input, fetched>>

\* The arm of SubmitCommandFailure, lines 249-252.
Failure(r) ==
    /\ pc = "waiting"
    /\ submit_result(r) = "SubmitCommandFailure"
    /\ reply' = r
    /\ last' = "SubmitCommandFailure"
    /\ output' = <<TextLine(r.body.message.v)>>
    /\ pc' = "prompt"
    /\ UNCHANGED <<current_screen, current_state, request, applied, codec, user_input, fetched>>

Next ==
    \/ Start
    \/ \E line \in Lines : Inventory(line)
    \/ \E line \in Lines : ScreenId(line)
    \/ \E line \in Lines : Look(line)
    \/ \E line \in Lines : Help(line)
    \/ \E line \in Lines : Exit(line)
    \/ SubmitCommand
    \/ SendUnwrapPanics
    \/ \E r \in Replies : JsonUnwrapPanics(r)
    \/ \E r \in Replies : PrintMessageSuccess(r)
    \/ \E r \in Replies : NavigationSuccess(r)
    \/ \E r \in Replies : Failure(r)

Spec == Init /\ [][Next]_vars

\* ------------------------------------------------- the codec by itself

\* Item names that exercise the codec: lamp, the empty name, k"y (a quote),
\* a backslash followed by a character above 255, and a run of one letter.
CodecNames ==
    {Lamp, <<>>, <<107, 34, 121>>, <<92, 955>>, <<97, 97, 97, 97, 97>>}

CodecStates == {[inventory |-> i] : i \in SeqsUpTo(CodecNames, MaxCodecItems)}

CodecInit ==
    /\ pc = "start"
    /\ current_screen = [id |-> "", body |-> <<>>]
    /\ current_state = [inventory |-> <<>>]
    /\ request = NoRequest
    /\ reply = NoReply
    /\ output = <<>>
    /\ last = "new"
    /\ applied = [screen_id |-> "", has_token |-> FALSE, token |-> <<>>]
    /\ codec \in {[CodecIdle EXCEPT !.stage = "input", !.s = st] : st \in CodecStates}
    /\ user_input = <<>>
    /\ fetched = ""

\* to_state_string applied to the input.
Encode ==
    /\ codec.stage = "input"
    /\ codec' = [codec EXCEPT !.stage = "encoded",
                              !.token = to_state_string(codec.s)]
    /\ UNCHANGED <<pc, current_screen, current_state, request, reply, output,
                   last, applied, user_input, fetched>>

\* from_state_string applied to the token.
Decode ==
    /\ codec.stage = "encoded"
    /\ codec' = [codec EXCEPT !.stage = "decoded",
                              !.decoded = from_state_string(codec.token)]
    /\ UNCHANGED <<pc, current_screen, current_state, request, reply, output,
                   last, applied, user_input, fetched>>

CodecNext == Encode \/ Decode

CodecSpec == CodecInit /\ [][CodecNext]_vars

\* ----------------------------------------------------------------- claims

\* The reply of this turn was dispatched to the message or navigation arm.
OutcomeArm(st_last) ==
    st_last \in {"SubmitCommandPrintMessageSuccess", "SubmitCommandNavigationSuccess"}

\* The state of the session before the call, as the request of the turn
\* recorded it, is still the state of the session.
AtRequestValues ==
    /\ request.sent
    /\ current_screen.id = request.contextScreenId
    /\ to_state_string(current_state) = request.state

\* C1: when the state token of a message or navigation outcome does not
\* decode, the step that handles the outcome leaves current_screen and
\* current_state as they were before it.
C1_NoPartialApplication ==
    [][(/\ pc = "waiting"
        /\ OutcomeArm(last')
        /\ ~from_state_string(reply'.body.state.v).ok)
       => (current_screen' = current_screen /\ current_state' = current_state)]_vars

\* A navigation outcome to another screen whose token holds a character
\* outside the alphabet has been handled, and the screen is the old one.
C1_Witness ==
    /\ last = "SubmitCommandNavigationSuccess"
    /\ reply.body.state.v = InvalidCharToken
    /\ reply.body.screen.v = CaveScreen
    /\ current_screen = HomeScreen
    /\ current_state = [inventory |-> <<Lamp>>]

\* The reply of this turn is an object that holds printMessage and screen with
\* the five fields the two variants share.
HoldsBoth ==
    /\ reply.kind = "object"
    /\ last # "start"
    /\ deserializes(reply.body, PrintMessageFields \cup NavigationFields)

\* C2 as stated: a response that holds printMessage and screen is dispatched
\* to the navigation arm.
C2_BothIsNavigation == HoldsBoth => last = "SubmitCommandNavigationSuccess"

\* C2 as amended: a response that holds printMessage and screen is dispatched
\* to the message arm, the first variant that deserializes; its lines are
\* printed and the screen is not replaced.
C2_BothIsMessage ==
    HoldsBoth =>
        /\ last = "SubmitCommandPrintMessageSuccess"
        /\ current_screen.id = request.contextScreenId
        /\ SubSeq(output, 1, 2) = <<TextLine("Taken."), TextLine("Done.")>>

\* A response with printMessage and the cave screen was handled at home: the
\* state is the token's and the screen is still home.
C2_Witness ==
    /\ HoldsBoth
    /\ pc = "prompt"
    /\ reply.body.screen.v = CaveScreen
    /\ current_screen = HomeScreen
    /\ reply.body.state.v = LampToken
    /\ current_state = [inventory |-> <<Lamp>>]

\* C3: the request in flight carries the id of the current screen, which is
\* that of the screen fetched at the start or of the last navigation applied,
\* and the encoding of the current state, which is the empty inventory or the
\* state decoded from the token of the last outcome applied.
C3_RequestIsCurrent ==
    pc = "waiting" =>
        /\ request.sent
        /\ request.contextScreenId = current_screen.id
        /\ request.contextScreenId = applied.screen_id
        /\ request.state = to_state_string(current_state)
        /\ request.state =
              to_state_string(IF applied.has_token
                              THEN from_state_string(applied.token).state
                              ELSE [inventory |-> <<>>])

\* A request is in flight from the cave with the lamp, after outcomes were
\* applied.
C3_Witness ==
    /\ pc = "waiting"
    /\ applied.has_token
    /\ request.contextScreenId = "X"
    /\ request.state = LampToken
    /\ request.command = GoNorth

\* C4: the step that applies a message outcome whose token decodes leaves
\* current_screen as it was and makes current_state the state the token
\* decodes to: for a token the server made from a state, that state.
C4_MessageReplacesState ==
    [][(/\ pc = "waiting"
        /\ pc' = "prompt"
        /\ last' = "SubmitCommandPrintMessageSuccess")
       => (/\ current_screen' = current_screen
           /\ current_state' = from_state_string(reply'.body.state.v).state
           /\ \A issued \in IssuedTokens :
                 reply'.body.state.v = issued[2] => current_state' = issued[1])]_vars

\* A message outcome with the token of the key alone and itemsAdded lamp was
\* applied to the inventory lamp: the inventory is the key alone.
C4_Witness ==
    /\ pc = "prompt"
    /\ last = "SubmitCommandPrintMessageSuccess"
    /\ request.state = LampToken
    /\ reply.body.state.v = to_state_string([inventory |-> <<Key>>])
    /\ reply.body.itemsAdded.v = <<Lamp>>
    /\ current_state = [inventory |-> <<Key>>]

\* C5: the step that applies a navigation outcome whose token decodes makes
\* current_screen the outcome's screen and current_state the state the token
\* decodes to; a /look that follows prints that screen's body and a
\* /screen-id that follows prints its id.
C5_NavigationReplacesScreen ==
    [][/\ (/\ pc = "waiting"
           /\ pc' = "prompt"
           /\ last' = "SubmitCommandNavigationSuccess")
          => (/\ current_screen' = reply'.body.screen.v
              /\ current_state' = from_state_string(reply'.body.state.v).state)
       /\ (/\ pc = "prompt"
           /\ last = "SubmitCommandNavigationSuccess"
           /\ last' = "/look")
          => (/\ Len(output') = Len(reply.body.screen.v.body)
              /\ \A i \in 1..Len(output') :
                    output'[i] = TextLine(reply.body.screen.v.body[i]))
       /\ (/\ pc = "prompt"
           /\ last = "SubmitCommandNavigationSuccess"
           /\ last' = "/screen-id")
          => output' = <<TextLine(reply.body.screen.v.id)>>]_vars

\* A navigation outcome to the cave with the lamp's token was applied at home.
C5_Witness ==
    /\ pc = "prompt"
    /\ last = "SubmitCommandNavigationSuccess"
    /\ request.contextScreenId = INITIAL_SCREEN_ID
    /\ request.state = to_state_string([inventory |-> <<>>])
    /\ current_screen = CaveScreen
    /\ current_state = [inventory |-> <<Lamp>>]

\* C6: the step that handles a failure outcome leaves current_screen and
\* current_state as they were.
C6_FailureMutatesNothing ==
    [][(pc = "waiting" /\ last' = "SubmitCommandFailure")
       => (current_screen' = current_screen /\ current_state' = current_state)]_vars

\* A failure outcome was handled in the cave with the lamp.
C6_Witness ==
    /\ pc = "prompt"
    /\ last = "SubmitCommandFailure"
    /\ reply.body.message.v = "You can't fly."
    /\ current_screen = CaveScreen
    /\ current_state = [inventory |-> <<Lamp>>]

\* The POST of this turn failed in transport: send() failed or the body was
\* no JSON.
TransportFailed ==
    /\ last \in {"send_unwrap", "json_unwrap"}
    /\ reply.kind \in {"send_failed", "not_json"}

DecodeFailed ==
    /\ OutcomeArm(last)
    /\ ~from_state_string(reply.body.state.v).ok

NoBadTokenDecodes == \A t \in BadTokens : ~from_state_string(t).ok

MatchesNoVariant ==
    /\ reply.kind = "object"
    /\ last # "start"
    /\ deserialize_response(reply.body) = "Err"

C10_RoundTrip ==
    codec.stage = "decoded" => codec.decoded = [ok |-> TRUE, state |-> codec.s]

\* A state of MaxCodecItems items, among them a name with a quote and a name
\* with a backslash and a character above 255, has been encoded and decoded.
C10_Witness ==
    /\ codec.stage = "decoded"
    /\ Len(codec.s.inventory) = MaxCodecItems
    /\ codec.s.inventory[1] = <<107, 34, 121>>
    /\ codec.s.inventory[2] = <<92, 955>>
    /\ codec.decoded.ok
    /\ Len(codec.token) > 0

\* The shapes of a well-formed response: the fields of a message outcome, of
\* a navigation outcome, or of a failure outcome, and no others.
WellFormedShapes ==
    { {"success", "type", "printMessage", "state", "itemsAdded", "itemsRemoved"},
      {"success", "type", "screen", "state", "itemsAdded", "itemsRemoved"},
      {"success", "message"} }

FieldsHeld(body) == {f \in DOMAIN body : body[f].tag # "absent"}

WellFormed(body) ==
    /\ FieldsHeld(body) \in WellFormedShapes
    /\ \A f \in FieldsHeld(body) : body[f].tag = "ok"

\* The variants whose DTO deserializes from the body.
MatchingVariants(body) ==
    {i \in 1..Len(VariantOrder) : deserializes(body, VariantOrder[i].fields)}

\* C11: a well-formed response (an object that holds the fields of exactly one
\* of the three outcome shapes) deserializes as exactly one variant, and the
\* arm of that variant is the one that handles it.
C11_ExactlyOneVariant ==
    (reply.kind = "object" /\ WellFormed(reply.body))
        => /\ Cardinality(MatchingVariants(reply.body)) = 1
           /\ \A i \in MatchingVariants(reply.body) : last = VariantOrder[i].name

\* A well-formed failure response has been handled by the failure arm.
C11_Witness ==
    /\ reply.kind = "object"
    /\ WellFormed(reply.body)
    /\ FieldsHeld(reply.body) = {"success", "message"}
    /\ reply.body.success.v = FALSE
    /\ last = "SubmitCommandFailure"
    /\ pc = "prompt"

RECURSIVE object_members(_, _, _)
\* The members of a JSON object from p, each as its name with the text of its
\* value.
object_members(t, p, acc) ==
    LET k == parse_string(t, p)
        c == skip_ws(t, k.pos)
        v == skip_ws(t, c + 1)
        r == skip_value(t, v)
        q == skip_ws(t, r.pos)
        acc2 == acc \cup {<<k.val, SubSeq(t, v, r.pos - 1)>>}
    IN IF ~k.ok \/ ~at(t, c, 58) \/ ~r.ok THEN acc
       ELSE IF at(t, q, 44) THEN object_members(t, skip_ws(t, q + 1), acc2)
       ELSE acc2

\* The fields other than inventory of the state a token encodes.
ExtraFields(token) ==
    LET json == decompress_uri(token)
    IN IF json.ok /\ at(json.text, 1, 123)
       THEN {m \in object_members(json.text, skip_ws(json.text, 2), {}) :
                m[1] # InventoryKey}
       ELSE {}

\* C12 as stated: the fields other than inventory of the last state token
\* applied are encoded, unchanged, in the state token of the next request.
C12_ExtraFieldsPreserved ==
    (pc = "waiting" /\ applied.has_token)
        => ExtraFields(applied.token) \subseteq ExtraFields(request.state)

\* C13: before the fetch of the initial screen nothing has been sent; the
\* fetch asks for INITIAL_SCREEN_ID; when it fails main panics with no prompt,
\* no output and no request, and nothing happens after a panic.
C13_FetchFirstOrNoSession ==
    /\ [](/\ pc = "start" => (fetched = "" /\ ~request.sent)
          /\ pc # "start" => fetched = INITIAL_SCREEN_ID
          /\ (last = "start" /\ reply.kind # "screen")
                => (pc = "panicked" /\ ~request.sent /\ output = <<>>))
    /\ [][pc # "panicked"]_vars

\* The fetch of the initial screen failed in send() and main has panicked.
C13_Witness ==
    /\ last = "start"
    /\ reply = SendFailed
    /\ fetched = INITIAL_SCREEN_ID
    /\ pc = "panicked"
    /\ ~request.sent

\* C14: a step of the /look arm leaves current_screen and current_state as
\* they were and prints the lines of the current screen's body, in order.
C14_LookMutatesNothing ==
    [][(pc = "prompt" /\ last' = "/look")
       => /\ current_screen' = current_screen
          /\ current_state' = current_state
          /\ Len(output') = Len(current_screen.body)
          /\ \A i \in 1..Len(current_screen.body) :
                output'[i] = TextLine(current_screen.body[i])]_vars

\* /again typed in the cave, the lamp held: the body of the cave is printed
C14_Witness ==
    /\ last = "/look"
    /\ user_input = SlashAgain \o Newline
    /\ current_screen = CaveScreen
    /\ current_state = [inventory |-> <<Lamp>>]
    /\ output = <<TextLine("You are in a cave."), TextLine("It is dark.")>>

\* A list of lines as it is to be printed: one line of output for each.
ExpectedLines(lines) ==
    IF lines = <<>> THEN <<>>
    ELSE [i \in 1..Len(lines) |-> [s |-> lines[i], item |-> <<>>]]

\* A block of items as it is to be printed: nothing for an empty list,
\* otherwise the header and one line for each item.
ExpectedBlock(header, prefix, items) ==
    IF items = <<>> THEN <<>>
    ELSE <<[s |-> header, item |-> <<>>]>>
            \o [i \in 1..Len(items) |-> [s |-> prefix, item |-> items[i]]]

ExpectedRendering(lines, body) ==
    ExpectedLines(lines)
        \o ExpectedBlock("Items added:", "+ ", body.itemsAdded.v)
        \o ExpectedBlock("Items removed:", "- ", body.itemsRemoved.v)

\* C15: the output of the message arm is the lines of printMessage, that of
\* the navigation arm the lines of the new screen's body; after them comes
\* the block of the added items and then the block of the removed ones,
\* each only for a list that is not empty.
C15_RenderingOrder ==
    /\ last = "SubmitCommandPrintMessageSuccess"
          => output = ExpectedRendering(reply.body.printMessage.v, reply.body)
    /\ last = "SubmitCommandNavigationSuccess"
          => output = ExpectedRendering(reply.body.screen.v.body, reply.body)

\* A navigation to the cave that adds the lamp and removes the key has been
\* printed: two lines of body, then the two blocks.
C15_Witness ==
    /\ last = "SubmitCommandNavigationSuccess"
    /\ Len(output) = 6
    /\ output[1].s = "You are in a cave."
    /\ output[2].s = "It is dark."
    /\ output[3].s = "Items added:"
    /\ output[4] = [s |-> "+ ", item |-> Lamp]
    /\ output[5].s = "Items removed:"
    /\ output[6] = [s |-> "- ", item |-> Key]

\* C16: the output of the failure arm is the one line of the message.
C16_FailurePrintsMessageOnly ==
    last = "SubmitCommandFailure"
        => output = <<[s |-> reply.body.message.v, item |-> <<>>]>>

\* {success: false, message: "You can't fly."} has been handled in the cave.
C16_Witness ==
    /\ last = "SubmitCommandFailure"
    /\ reply.body.success.v = FALSE
    /\ current_screen = CaveScreen
    /\ output = <<[s |-> "You can't fly.", item |-> <<>>]>>

\* t is s without the whitespace at its two ends.
IsTrimOf(t, s) ==
    \E a \in 0..Len(s), b \in 0..Len(s) :
        /\ a + b <= Len(s)
        /\ t = SubSeq(s, a + 1, Len(s) - b)
        /\ \A i \in 1..a : IsRustWhitespace(s[i])
        /\ \A i \in (Len(s) - b + 1)..Len(s) : IsRustWhitespace(s[i])
        /\ t = <<>> \/ (~IsRustWhitespace(t[1]) /\ ~IsRustWhitespace(t[Len(t)]))

\* C17: a line read at the prompt whose trimmed text is a slash command sends
\* no request and leaves screen and state as they were; any other line
\* sends one request whose command is the trimmed text; no other step builds
\* a request.
C17_RequestIffNotSlash ==
    [][IF pc = "prompt"
       THEN IF \E c \in SlashCommands : IsTrimOf(c, user_input')
            THEN /\ ~request'.sent
                 /\ pc' # "waiting"
                 /\ current_screen' = current_screen
                 /\ current_state' = current_state
            ELSE /\ request'.sent
                 /\ pc' = "waiting"
                 /\ IsTrimOf(request'.command, user_input')
       ELSE request' = request]_vars

\* "  go north \r\n" has been read and the request says "go north".
C17_Witness ==
    /\ pc = "waiting"
    /\ user_input = <<32, 32>> \o GoNorth \o <<32, 13, 10>>
    /\ request.sent
    /\ request.command = GoNorth

\* The state a token of the environment decodes to.
Decodable ==
    IssuedTokens \cup {<<[inventory |-> <<Lamp>>], ExtraFieldToken>>}

\* current_state has been replaced by the state the reply's token decodes to.
StateReplaced ==
    /\ applied.has_token
    /\ applied.token = reply.body.state.v
    /\ <<current_state, reply.body.state.v>> \in Decodable

\* C18: after the navigation arm, when current_screen is the screen of the
\* outcome and that is another screen than the request was sent from,
\* current_state has been replaced by the decoded state of the outcome and
\* main has not panicked.
C18_StateBeforeScreen ==
    (/\ last = "SubmitCommandNavigationSuccess"
     /\ reply.body.screen.v.id # request.contextScreenId
     /\ current_screen = reply.body.screen.v)
        => (pc = "prompt" /\ StateReplaced)

\* A navigation from home to the cave whose token holds the key is applied.
C18_Witness ==
    /\ last = "SubmitCommandNavigationSuccess"
    /\ request.contextScreenId = INITIAL_SCREEN_ID
    /\ current_screen = CaveScreen
    /\ current_state = [inventory |-> <<Key>>]
    /\ pc = "prompt"

\* The reply of this turn is an object of the given set with the given flag.
Flagged(bodies, flag) ==
    /\ reply.kind = "object"
    /\ reply.body \in bodies
    /\ reply.body.success.v = flag

\* C19: a response of the message or navigation shape with success false is
\* handled by the message or navigation arm, which replaces the state (and
\* the screen) whenever the token decodes; a response that holds success
\* true and message only is handled by the failure arm, and screen and state
\* are still those the request recorded.
C19_SuccessFlagIgnored ==
    /\ Flagged(MessageBodies, FALSE)
          => /\ last = "SubmitCommandPrintMessageSuccess"
             /\ pc = "prompt" <=> reply.body.state.v \notin BadTokens
             /\ pc = "prompt" => StateReplaced
    /\ Flagged(NavigationBodies, FALSE)
          => /\ last = "SubmitCommandNavigationSuccess"
             /\ pc = "prompt" <=> reply.body.state.v \notin BadTokens
             /\ pc = "prompt"
                   => (StateReplaced /\ current_screen = reply.body.screen.v)
    /\ Flagged(FailureBodies, TRUE)
          => /\ last = "SubmitCommandFailure"
             /\ pc = "prompt"
             /\ AtRequestValues

\* A navigation with success false has moved the session from home to the
\* cave and replaced the empty state by the lamp.
C19_Witness ==
    /\ Flagged(NavigationBodies, FALSE)
    /\ request.contextScreenId = INITIAL_SCREEN_ID
    /\ request.state = to_state_string([inventory |-> <<>>])
    /\ current_screen = CaveScreen
    /\ current_state = [inventory |-> <<Lamp>>]
    /\ pc = "prompt"

====
